---- MODULE Spec2Model ----
(***************************************************************************)
(* The LLM call gateway of TrendRadar: the response cache of llm_core.py   *)
(* (_get_cache, _set_cache, _cleanup_cache), the guarded caller            *)
(* call_openrouter of llm_core.py and the retrying caller call_openrouter  *)
(* of step39_news_filter.py.                                               *)
(*                                                                         *)
(* Strings are sequences of tokens, so that concatenation (the raw cache   *)
(* key) and substring tests (":free" in model, split('/')) are computed.   *)
(* hashlib.md5 is taken to be injective on the raw keys: the digest of a   *)
(* raw key is the raw key.  A calendar day is its day number; ISO dates    *)
(* compare as text exactly as the day numbers compare.                     *)
(***************************************************************************)
EXTENDS Integers, Sequences, FiniteSets, TLC

\* --------------------------------------------------------------- bounds
\* last calendar day of a behaviour of Spec (days are 0..MaxDay)
MaxDay == 1
\* longest provider list handed to call_openrouter of llm_core.py
MaxModels == 2
\* number of entries of FREE_MODELS the model keeps
MaxRoster == 1
\* largest number of rows of the cache table
MaxCache == 2
\* largest number of writes of the other process during one invoke
MaxPeerWrites == 2
\* largest number of rows that one run of process_latest_news fetches
MaxItems == 2
\* largest number of runs of process_latest_news
MaxRuns == 2
\* last calendar day of a behaviour of SpecStore
MaxStoreDay == 8

\* ------------------------------------------------------------ constants
\* Python's None
None == "None"
\* llm_core.py
FORCE_FREE_MODE == TRUE
\* step39_news_filter.py, call_openrouter: max_retries = 2
max_retries == 2
\* _cleanup_cache(days_to_keep=7)
days_to_keep == 7
\* process_latest_news: time.sleep(10) between two items
ItemDelay == 10

\* provider ids, as token sequences
PaidModel == <<"paid-model">>
FreeModel == <<"free-model", ":free">>
Gemini == <<"google", "/", "gemini-2.0-flash-exp", ":free">>
Mimo == <<"xiaomi", "/", "mimo-v2-flash", ":free">>
DeepseekChimera == <<"tngtech", "/", "deepseek-r1t2-chimera", ":free">>
FullRoster == <<Gemini, Mimo, DeepseekChimera>>
FREE_MODELS == SubSeq(FullRoster, 1, MaxRoster)
DEFAULT_MODEL == FREE_MODELS[1]

\* the ids a caller may name
ModelIds == {PaidModel, FreeModel, Gemini}

\* message lists: a message is a dict, a sequence of <<key, value>> pairs in
\* insertion order
MsgHi == << <<"role", "user">>, <<"content", "hi">> >>
MsgHiSwapped == << <<"content", "hi">>, <<"role", "user">> >>
MsgYo == << <<"role", "user">>, <<"content", "yo">> >>
Messages == {MsgHi, MsgHiSwapped, MsgYo}
\* the message lists handed to the callers of llm_core.py
CoreMessages == {MsgHi, MsgHiSwapped}

\* what a 200 reply may carry as choices[0].message.content: null, an empty
\* text, a text
Contents == {None, "", "ok"}

\* the classified outcome of one requests.post: a 200 with its content, a 429,
\* another status, or an exception (timeout, connection error, unparsable body)
OutcomesOf(contents) ==
    [kind : {"Success"}, content : contents]
    \cup [kind : {"RateLimited", "Rejected", "Transient"}, content : {None}]

Outcomes == OutcomesOf(Contents)

\* ------------------------------------------------------------- helpers
\* Python truthiness of a str-or-None
Truthy(x) == x # None /\ x # ""

\* sub in s, for a one-token sub
Contains(s, tok) == \E i \in 1..Len(s) : s[i] = tok

RECURSIVE SeqIndex(_, _, _)
\* list.index(x), searching from position i
SeqIndex(s, x, i) == IF i > Len(s) THEN 0 ELSE IF s[i] = x THEN i ELSE SeqIndex(s, x, i + 1)

InSeq(x, s) == \E i \in 1..Len(s) : s[i] = x

NoDup(s) == \A i, j \in 1..Len(s) : s[i] = s[j] => i = j

\* json.dumps(messages, sort_keys=True): the keys of a dict in sorted order
\* ("content" < "role"), each followed by its value
KeyRank(k) == IF k = "content" THEN 1 ELSE 2

JsonDumps(msg) ==
    LET n == Len(msg)
        \* position in msg of the r-th smallest key
        At(r) == CHOOSE i \in 1..n : Cardinality({j \in 1..n : KeyRank(msg[j][1]) < KeyRank(msg[i][1])}) = r - 1
    IN  [t \in 1..(2 * n) |-> IF t % 2 = 1 THEN msg[At((t + 1) \div 2)][1] ELSE msg[At(t \div 2)][2]]

Prompts == {JsonDumps(m) : m \in Messages}

\* --------------------------------------------------------- the cache
\* a key that leaves the day out
CacheKeyNoDay(model_name, prompt_str, day) == model_name \o <<"|">> \o prompt_str

\* raw_key = f"{model_name}|{prompt_str}|{today}"; key_hash = md5(raw_key)
CacheKey(model_name, prompt_str, day) == model_name \o <<"|">> \o prompt_str \o <<"|", ToString(day)>>

\* a read that hands back the text of its error
_get_cache_error(c, model_name, prompt_str, day, fail) ==
    LET key_hash == CacheKey(model_name, prompt_str, day)
        rows == {e \in c : e.prompt_hash = key_hash}
    IN  IF fail THEN "database is locked"
        ELSE IF rows = {} THEN None ELSE (CHOOSE e \in rows : TRUE).response

\* _get_cache reading under yesterday's date
_get_cache_yesterday(c, model_name, prompt_str, day, fail) ==
    LET key_hash == CacheKey(model_name, prompt_str, day - 1)
        rows == {e \in c : e.prompt_hash = key_hash}
    IN  IF fail \/ rows = {} THEN None ELSE (CHOOSE e \in rows : TRUE).response

\* _get_cache: the response stored under today's key, None on a miss or on a
\* failed read
_get_cache(c, model_name, prompt_str, day, fail) ==
    LET key_hash == CacheKey(model_name, prompt_str, day)
        rows == {e \in c : e.prompt_hash = key_hash}
    IN  IF fail \/ rows = {} THEN None ELSE (CHOOSE e \in rows : TRUE).response

\* a write that keeps the row that is already there
_set_cache_keep_first(c, model_name, prompt_str, response, day, fail) ==
    LET key_hash == CacheKey(model_name, prompt_str, day)
    IN  IF ~Truthy(response) \/ fail \/ (\E e \in c : e.prompt_hash = key_hash) THEN c
        ELSE c \cup {[prompt_hash |-> key_hash, model_name |-> model_name,
                      response |-> response, created_date |-> day]}

\* a write that drops the rows of earlier days
_set_cache_fresh(c, model_name, prompt_str, response, day, fail) ==
    IF ~Truthy(response) \/ fail THEN c
    ELSE LET key_hash == CacheKey(model_name, prompt_str, day)
         IN  {e \in c : e.prompt_hash # key_hash /\ e.created_date = day}
             \cup {[prompt_hash |-> key_hash, model_name |-> model_name,
                    response |-> response, created_date |-> day]}

\* a write that adds its row and keeps the old one
_set_cache_append(c, model_name, prompt_str, response, day, fail) ==
    IF ~Truthy(response) \/ fail THEN c
    ELSE c \cup {[prompt_hash |-> CacheKey(model_name, prompt_str, day), model_name |-> model_name,
                  response |-> response, created_date |-> day]}

\* a write that takes any response
_set_cache_any(c, model_name, prompt_str, response, day, fail) ==
    IF fail THEN c
    ELSE LET key_hash == CacheKey(model_name, prompt_str, day)
         IN  {e \in c : e.prompt_hash # key_hash}
             \cup {[prompt_hash |-> key_hash, model_name |-> model_name,
                    response |-> response, created_date |-> day]}

\* _set_cache: nothing for a falsy response, else REPLACE INTO under today's key;
\* a failed write leaves the table as it was
_set_cache(c, model_name, prompt_str, response, day, fail) ==
    IF ~Truthy(response) \/ fail THEN c
    ELSE LET key_hash == CacheKey(model_name, prompt_str, day)
         IN  {e \in c : e.prompt_hash # key_hash}
             \cup {[prompt_hash |-> key_hash, model_name |-> model_name,
                    response |-> response, created_date |-> day]}

\* a sweep that also deletes the rows of the cutoff day
_cleanup_cache_inclusive(c, day, keep, fail) ==
    LET cutoff == day - keep
    IN  IF fail THEN c ELSE {e \in c : ~(e.created_date <= cutoff)}

\* _cleanup_cache: DELETE ... WHERE created_date < cutoff
_cleanup_cache(c, day, keep, fail) ==
    LET cutoff == day - keep
    IN  IF fail THEN c ELSE {e \in c : ~(e.created_date < cutoff)}

\* a firewall that stops only the ids of a vendor (with a "/") that lack the marker
InterceptedVendorOnly(model) ==
    FORCE_FREE_MODE /\ ~Contains(model, ":free") /\ Contains(model, "/")

\* the firewall letting every model through
InterceptedNever(model) == FALSE

\* the free "firewall" of llm_core.call_openrouter: TRUE when the model is skipped
Intercepted(model) == FORCE_FREE_MODE /\ ~Contains(model, ":free")

\* ------------------------------------------------------------ the state
VARIABLES
    \* date.today(), a day number
    today,
    \* the rows of llm_response_cache
    cache,
    \* llm_core.ollama_client is set
    ollama_client,
    \* llm_core.github_client is set
    github_client,
    \* step39_news_filter.py: the run of process_latest_news and the table
    \* processed_news of investment_news.db
    batch,
    \* the running or the last finished operation of the process: the locals of
    \* call_openrouter, its return value and the log of what it did
    call

vars == <<today, cache, ollama_client, github_client, batch, call>>

Event(ev, model, out, content, secs) ==
    [ev |-> ev, model |-> model, out |-> out, content |-> content, secs |-> secs]

Log(v, e) == [v EXCEPT !.trace = Append(@, e)]

\* the record of a process of program impl ("core": llm_core.py, "step39":
\* step39_news_filter.py) that is not in call_openrouter; pc is "booted" right
\* after initialize_services (cache0, cache1: the table before and after it);
\* op names the client caller that has just returned, ret is what it returned
\* and chats the number of requests it sent
Idle(impl, pc, c0, c1, day) ==
    [pc |-> pc, impl |-> impl, models |-> <<>>, prompt |-> <<>>, i |-> 0,
     attempt |-> 0, ret |-> None, raised |-> FALSE, trace |-> <<>>,
     cache0 |-> c0, cache1 |-> c1, day |-> day, key |-> TRUE, again |-> FALSE,
     first |-> None, op |-> "", chats |-> 0]

\* the call that begins after old: again when old is the same call, finished
\* on this day, and first is then what old returned
NewCall(old, impl, key, models, prompt, c, day, pc) ==
    LET again == /\ old.pc = "done" /\ old.impl = impl /\ old.models = models
                 /\ old.prompt = prompt /\ old.day = day
    IN  [Idle(impl, pc, c, c, day) EXCEPT !.models = models, !.prompt = prompt, !.i = 1,
                                          !.key = key, !.again = again,
                                          !.first = IF again THEN old.ret ELSE None]

\* a return that stays in the loop
ReturnAndGoOn(v, r) == [v EXCEPT !.ret = r]

\* return r
Return(v, r) == [v EXCEPT !.pc = "done", !.ret = r]

\* the process is outside call_openrouter and its caller has taken the result
Quiet == call.pc \in {"booted", "idle"}

\* a call of program impl may begin: any call when Quiet, or right after a
\* finished call the same call once more
MayBegin(impl, models, prompt) ==
    /\ call.impl = impl
    /\ \/ Quiet
       \/ call.pc = "done" /\ call.models = models /\ call.prompt = prompt

\* SQL NULL: the platform_name of an item that the LEFT JOIN found no platform for
NULL == "NULL"

\* process_latest_news is not running; table is processed_news and runs the
\* number of runs so far
BatchOff(table, runs) ==
    [pc |-> "off", rows |-> <<>>, i |-> 0, processed_news |-> table, table0 |-> table,
     log |-> <<>>, runs |-> runs]

\* the state after the import of the program: llm_core.py runs
\* initialize_services on its table, step39_news_filter.py has no table
Init ==
    /\ today = 0
    /\ cache = {}
    /\ batch = BatchOff({}, 0)
    /\ \E impl \in {"core", "step39"} :
          /\ call = Idle(impl, "booted", {}, {}, 0)
          /\ ollama_client \in (IF impl = "core" THEN BOOLEAN ELSE {FALSE})
          /\ github_client \in (IF impl = "core" THEN BOOLEAN ELSE {FALSE})

\* what the finished call leaves behind: the table and the day at its return
Finish(v, c, day) == IF v.pc = "done" THEN [v EXCEPT !.cache1 = c, !.day = day] ELSE v

\* ------------------------------------- llm_core.py: call_openrouter
\* models may be one id (a str) or a list of ids
ModelLists == {l \in UNION {[1..n -> ModelIds] : n \in 0..MaxModels} : NoDup(l)}

ModelArgs == [str : {TRUE}, val : ModelIds] \cup [str : {FALSE}, val : ModelLists]

\* if isinstance(models, str): models = [models]
AsList(arg) == IF arg.str THEN <<arg.val>> ELSE arg.val

\* an exception of requests.post that nothing catches
CoreExceptRaise(v) == [v EXCEPT !.pc = "done", !.raised = TRUE]

\* an exception sending the loop back to the provider before
CoreExceptBack(v) == [v EXCEPT !.pc = "core_top", !.i = IF @ > 1 THEN @ - 1 ELSE @ + 1]

\* except: continue
CoreExcept(v) == [v EXCEPT !.pc = "core_top", !.i = @ + 1]

\* a non-200 status ending the call
CoreNon200Return(v) == Return(v, None)

\* else: time.sleep(1); continue
CoreNon200(v) ==
    [Log(v, Event("sleep", v.models[v.i], "", None, 1)) EXCEPT !.pc = "core_top", !.i = @ + 1]

\* the head of the pass with the cache lookup ahead of the firewall
CoreLoopHeadLookupFirst(v, c, day, fail) ==
    IF v.i > Len(v.models) THEN Return(v, None)
    ELSE LET model == v.models[v.i]
             cached == _get_cache(c, model, v.prompt, day, fail)
         IN  IF Truthy(cached)
             THEN Return(Log(v, Event("hit", model, "", cached, 0)), cached)
             ELSE IF Intercepted(model)
                  THEN [Log(v, Event("skip", model, "", None, 0)) EXCEPT !.i = @ + 1]
                  ELSE [Log(v, Event("miss", model, "", None, 0)) EXCEPT !.pc = "core_post"]

\* the head of the pass without the cache lookup
CoreLoopHeadNoLookup(v, c, day, fail) ==
    IF v.i > Len(v.models) THEN Return(v, None)
    ELSE LET model == v.models[v.i]
         IN  IF Intercepted(model)
             THEN [Log(v, Event("skip", model, "", None, 0)) EXCEPT !.i = @ + 1]
             ELSE [v EXCEPT !.pc = "core_post"]

\* the head of one pass of "for model in models", up to requests.post
CoreLoopHead(v, c, day, fail) ==
    IF v.i > Len(v.models) THEN Return(v, None)
    ELSE LET model == v.models[v.i]
         IN  IF Intercepted(model)
             THEN [Log(v, Event("skip", model, "", None, 0)) EXCEPT !.i = @ + 1]
             ELSE LET cached == _get_cache(c, model, v.prompt, day, fail)
                  IN  IF Truthy(cached)
                      THEN Return(Log(v, Event("hit", model, "", cached, 0)), cached)
                      ELSE [Log(v, Event("miss", model, "", None, 0)) EXCEPT !.pc = "core_post"]

\* the rest of the pass, once requests.post has come back with outcome o
CoreClassify(v, o) ==
    LET model == v.models[v.i]
        called == Log(v, Event("call", model, o.kind, o.content, 0))
    IN  CASE o.kind = "Success" ->
               Return(Log(called, Event("put", model, "", o.content, 0)), o.content)
          [] o.kind \in {"RateLimited", "Rejected"} -> CoreNon200(called)
          [] OTHER -> CoreExcept(called)

\* a pass that sweeps the table before it writes
CoreStoreSweeping(v, c, o, day, fail) ==
    IF o.kind = "Success"
    THEN _set_cache(_cleanup_cache(c, day, days_to_keep, FALSE), v.models[v.i], v.prompt, o.content, day, fail)
    ELSE c

\* a write under the first provider of the list
CoreStoreFirstModel(v, c, o, day, fail) ==
    IF o.kind = "Success" THEN _set_cache(c, v.models[1], v.prompt, o.content, day, fail) ELSE c

\* the table after the pass: _set_cache(model, prompt_str, content) on a 200
CoreStore(v, c, o, day, fail) ==
    IF o.kind = "Success" THEN _set_cache(c, v.models[v.i], v.prompt, o.content, day, fail) ELSE c

\* an entry that goes on without the API key
CoreStartKeyless(key, arg, messages) ==
    /\ MayBegin("core", AsList(arg), JsonDumps(messages))
    /\ Cardinality(cache) < MaxCache
    /\ call' = NewCall(call, "core", key, AsList(arg), JsonDumps(messages), cache, today, "core_top")
    /\ UNCHANGED <<today, cache, ollama_client, github_client>>

\* key = os.getenv("OPENROUTER_API_KEY"); if not key: return None; the list
\* and prompt_str
CoreStart(key, arg, messages) ==
    /\ MayBegin("core", AsList(arg), JsonDumps(messages))
    /\ Cardinality(cache) < MaxCache
    /\ LET v == NewCall(call, "core", key, AsList(arg), JsonDumps(messages), cache, today, "core_top")
       IN  call' = Finish(IF ~key THEN Return(v, None) ELSE v, cache, today)
    /\ UNCHANGED <<today, cache, ollama_client, github_client>>

CoreTop(fail) ==
    /\ call.pc = "core_top"
    /\ call' = Finish(CoreLoopHead(call, cache, today, fail), cache, today)
    /\ UNCHANGED <<today, cache, ollama_client, github_client>>

\* a pass whose failed write is an exception of the try block
CorePostWriteRaises(o, fail) ==
    /\ call.pc = "core_post"
    /\ cache' = CoreStore(call, cache, o, today, fail)
    /\ call' = Finish(IF fail /\ o.kind = "Success" /\ Truthy(o.content)
                      THEN CoreExcept(Log(call, Event("call", call.models[call.i], o.kind, o.content, 0)))
                      ELSE CoreClassify(call, o), cache', today)
    /\ UNCHANGED <<today, ollama_client, github_client>>

\* requests.post has come back: the rest of the pass and the table after it
CorePost(o, fail) ==
    /\ call.pc = "core_post"
    /\ cache' = CoreStore(call, cache, o, today, fail)
    /\ call' = Finish(CoreClassify(call, o), cache', today)
    /\ UNCHANGED <<today, ollama_client, github_client>>

\* ---------------------------- step39_news_filter.py: call_openrouter
RECURSIVE AppendAll(_, _, _)
\* a list that takes every roster entry, already there or not
AppendAll(acc, roster, k) ==
    IF k > Len(roster) THEN acc ELSE AppendAll(Append(acc, roster[k]), roster, k + 1)

RECURSIVE AppendMissing(_, _, _)
\* for m in FREE_MODELS: if m not in models_to_try: models_to_try.append(m)
AppendMissing(acc, roster, k) ==
    IF k > Len(roster) THEN acc
    ELSE AppendMissing(IF InSeq(roster[k], acc) THEN acc ELSE Append(acc, roster[k]), roster, k + 1)

ModelsToTry(model) == AppendMissing(<<model>>, FREE_MODELS, 1)

\* s.split('/')[1] exists
HasSlash(model) == Contains(model, "/")

\* the next pass of "for current_model in models_to_try", or the final return None
S39NextModel(v) ==
    IF v.i + 1 > Len(v.models) THEN Return([v EXCEPT !.i = @ + 1], None)
    ELSE [v EXCEPT !.i = @ + 1, !.attempt = 0]

\* an attempt loop that runs two passes more
S39NextAttemptLong(v) ==
    IF v.attempt + 1 < max_retries + 2 THEN [v EXCEPT !.attempt = @ + 1] ELSE S39NextModel(v)

\* the next pass of "for attempt in range(max_retries)"
S39NextAttempt(v) ==
    IF v.attempt + 1 < max_retries THEN [v EXCEPT !.attempt = @ + 1] ELSE S39NextModel(v)

\* an exception that starts the whole call again
S39ExceptRestart(v) == [v EXCEPT !.i = 1, !.attempt = 0, !.trace = <<>>]

\* an exception that does not use up an attempt
S39ExceptFree(v) == Log(v, Event("sleep", v.models[v.i], "", None, 5))

\* except Exception: time.sleep(5); continue
S39Except(v) == S39NextAttempt(Log(v, Event("sleep", v.models[v.i], "", None, 5)))

\* another status handled as an exception is: sleep and try again
S39RejectedRetry(v) == S39Except(v)

\* else: print(API Error); return None
S39Rejected(v) == Return(v, None)

\* a wait counted from attempt 0
WaitTimeFromZero(attempt) == 5 * attempt

\* wait_time = 5 * (attempt + 1)
WaitTime(attempt) == 5 * (attempt + 1)

\* one pass of the attempt loop, once requests.post has come back with outcome o
S39Classify(v, o) ==
    LET model == v.models[v.i]
        called == Log(v, Event("call", model, o.kind, o.content, 0))
        next_idx == SeqIndex(v.models, model, 1) + 1
    IN  CASE o.kind = "Success" -> Return(called, o.content)
          [] o.kind = "RateLimited" ->
               IF v.attempt < max_retries - 1
               THEN IF HasSlash(model)
                    THEN S39NextAttempt(Log(called, Event("sleep", model, "", None, WaitTime(v.attempt))))
                    ELSE S39Except(called)
               ELSE IF next_idx <= Len(v.models) /\ ~HasSlash(v.models[next_idx])
                    THEN S39Except(called)
                    ELSE S39NextModel(called)
          [] o.kind = "Rejected" -> S39Rejected(called)
          [] OTHER -> S39Except(called)

S39Start(key, model, messages) ==
    /\ MayBegin("step39", ModelsToTry(model), JsonDumps(messages))
    /\ LET v == NewCall(call, "step39", key, ModelsToTry(model), JsonDumps(messages), cache, today, "s39_post")
       IN  call' = Finish(IF ~key THEN Return(v, None) ELSE v, cache, today)
    /\ UNCHANGED <<today, cache, ollama_client, github_client>>

S39Post(o) ==
    /\ call.pc = "s39_post"
    /\ call' = Finish(S39Classify(call, o), cache, today)
    /\ UNCHANGED <<today, cache, ollama_client, github_client>>

\* ------------------------------------- llm_core.py: call_ollama_cloud
\* the whole call: no client, a cache hit, or one chat() and the write of its content
OllamaStore(c, client, model, prompt_str, o, day, fail) ==
    IF ~client \/ Truthy(_get_cache(c, model, prompt_str, day, fail)) \/ o.kind # "Success" THEN c
    ELSE _set_cache(c, model, prompt_str, o.content, day, fail)

\* what call_ollama_cloud returns
OllamaReturn(c, client, model, prompt_str, o, day, fail) ==
    LET cached == _get_cache(c, model, prompt_str, day, fail)
    IN  IF ~client THEN None
        ELSE IF Truthy(cached) THEN cached
        ELSE IF o.kind = "Success" THEN o.content ELSE None

\* the number of ollama_client.chat requests of the call
OllamaChats(c, client, model, prompt_str, day, fail) ==
    IF client /\ ~Truthy(_get_cache(c, model, prompt_str, day, fail)) THEN 1 ELSE 0

CallOllamaCloud(model, messages, o, fail) ==
    /\ Quiet /\ call.impl = "core"
    /\ Cardinality(cache) < MaxCache
    /\ cache' = OllamaStore(cache, ollama_client, model, JsonDumps(messages), o, today, fail)
    /\ call' = [Idle("core", "idle", cache, cache', today) EXCEPT
                   !.op = "call_ollama_cloud",
                   !.ret = OllamaReturn(cache, ollama_client, model, JsonDumps(messages), o, today, fail),
                   !.chats = OllamaChats(cache, ollama_client, model, JsonDumps(messages), today, fail)]
    /\ UNCHANGED <<today, ollama_client, github_client>>

\* ------------------------------------ llm_core.py: call_github_models
\* the whole call: no client, a cache hit, or one completions.create() and the
\* write of its content
GithubStore(c, client, model_name, prompt_str, o, day, fail) ==
    IF ~client \/ Truthy(_get_cache(c, model_name, prompt_str, day, fail)) \/ o.kind # "Success" THEN c
    ELSE _set_cache(c, model_name, prompt_str, o.content, day, fail)

\* what call_github_models returns
GithubReturn(c, client, model_name, prompt_str, o, day, fail) ==
    LET cached == _get_cache(c, model_name, prompt_str, day, fail)
    IN  IF ~client THEN None
        ELSE IF Truthy(cached) THEN cached
        ELSE IF o.kind = "Success" THEN o.content ELSE None

\* the number of github_client.chat.completions.create requests of the call
GithubCreates(c, client, model_name, prompt_str, day, fail) ==
    IF client /\ ~Truthy(_get_cache(c, model_name, prompt_str, day, fail)) THEN 1 ELSE 0

CallGithubModels(model_name, messages, o, fail) ==
    /\ Quiet /\ call.impl = "core"
    /\ Cardinality(cache) < MaxCache
    /\ cache' = GithubStore(cache, github_client, model_name, JsonDumps(messages), o, today, fail)
    /\ call' = [Idle("core", "idle", cache, cache', today) EXCEPT
                   !.op = "call_github_models",
                   !.ret = GithubReturn(cache, github_client, model_name, JsonDumps(messages), o, today, fail),
                   !.chats = GithubCreates(cache, github_client, model_name, JsonDumps(messages), today, fail)]
    /\ UNCHANGED <<today, ollama_client, github_client>>

\* ---------------------------------- llm_core.py: initialize_services
\* the process ends and the program is imported again
InitializeServices(fail) ==
    /\ Quiet /\ call.impl = "core"
    /\ cache' = _cleanup_cache(cache, today, days_to_keep, fail)
    /\ ollama_client' \in BOOLEAN
    /\ github_client' \in BOOLEAN
    /\ call' = Idle("core", "booted", cache, cache', today)
    /\ UNCHANGED today

\* ------------------------------------------------------------ the caller
\* the caller takes the result of the finished call and goes on
Pause ==
    /\ call.pc = "done"
    /\ call' = Idle(call.impl, "idle", cache, cache, today)
    /\ UNCHANGED <<today, cache, ollama_client, github_client>>

\* ------------------------------------------------------------ the clock
\* midnight passes between two operations
Tick(last) ==
    /\ Quiet
    /\ today < last
    /\ today' = today + 1
    /\ call' = Idle(call.impl, "idle", cache, cache, today')
    /\ UNCHANGED <<cache, ollama_client, github_client>>

\* ---------------------------------------------------- specifications
\* the gateway with a working store
Next ==
    \/ \E key \in BOOLEAN, arg \in ModelArgs, m \in CoreMessages : CoreStart(key, arg, m) /\ UNCHANGED batch
    \/ CoreTop(FALSE) /\ UNCHANGED batch
    \/ \E o \in Outcomes : CorePost(o, FALSE) /\ UNCHANGED batch
    \/ \E key \in BOOLEAN, model \in ModelIds, m \in Messages : S39Start(key, model, m) /\ UNCHANGED batch
    \/ \E o \in Outcomes : S39Post(o) /\ UNCHANGED batch
    \/ \E o \in Outcomes : CallOllamaCloud(PaidModel, MsgHi, o, FALSE) /\ UNCHANGED batch
    \/ \E o \in Outcomes : CallGithubModels(PaidModel, MsgHi, o, FALSE) /\ UNCHANGED batch
    \/ InitializeServices(FALSE) /\ UNCHANGED batch
    \/ Pause /\ UNCHANGED batch
    \/ Tick(MaxDay) /\ UNCHANGED batch

Spec == Init /\ [][Next]_vars

\* the store over the days of a retention window: llm_core.py with one free
\* and one paid provider
InitStore == Init /\ call.impl = "core"

NextStore ==
    \/ \E m \in CoreMessages : CoreStart(TRUE, [str |-> TRUE, val |-> FreeModel], m) /\ UNCHANGED batch
    \/ CoreTop(FALSE) /\ UNCHANGED batch
    \/ \E o \in OutcomesOf({"ok"}) : CorePost(o, FALSE) /\ UNCHANGED batch
    \/ \E o \in OutcomesOf({"ok"}) : CallOllamaCloud(PaidModel, MsgHi, o, FALSE) /\ UNCHANGED batch
    \/ InitializeServices(FALSE) /\ UNCHANGED batch
    \/ Pause /\ UNCHANGED batch
    \/ Tick(MaxStoreDay) /\ UNCHANGED batch

SpecStore == InitStore /\ [][NextStore]_vars

\* the gateway of llm_core.py over a store whose reads may fail (a locked or
\* unreadable file): the providers answer with one of two texts
InitReadFault == Init /\ call.impl = "core"

ReadFaultArgs == {[str |-> TRUE, val |-> FreeModel], [str |-> FALSE, val |-> <<FreeModel, Gemini>>]}

ReadFaultContents == {"ok", "ok2"}

NextReadFault ==
    \/ \E arg \in ReadFaultArgs, m \in CoreMessages : CoreStart(TRUE, arg, m) /\ UNCHANGED batch
    \/ \E fail \in BOOLEAN : CoreTop(fail) /\ UNCHANGED batch
    \/ \E o \in OutcomesOf(ReadFaultContents) : CorePost(o, FALSE) /\ UNCHANGED batch
    \/ Pause /\ UNCHANGED batch
    \/ Tick(MaxDay) /\ UNCHANGED batch

SpecReadFault == InitReadFault /\ [][NextReadFault]_vars

\* the gateway of llm_core.py over a store whose writes may fail
InitWriteFault == Init /\ call.impl = "core"

NextWriteFault ==
    \/ \E arg \in ReadFaultArgs, m \in CoreMessages : CoreStart(TRUE, arg, m) /\ UNCHANGED batch
    \/ CoreTop(FALSE) /\ UNCHANGED batch
    \/ \E o \in Outcomes, fail \in BOOLEAN : CorePost(o, fail) /\ UNCHANGED batch
    \/ Pause /\ UNCHANGED batch
    \/ Tick(MaxDay) /\ UNCHANGED batch

SpecWriteFault == InitWriteFault /\ [][NextWriteFault]_vars

\* ------------------------ step39_news_filter.py: process_latest_news
\* the rows of the source tables: id, title and the name of the platform,
\* NULL when the LEFT JOIN finds no platform
SourceItems == [id : 1..MaxItems, title : {"hi"}, platform_name : {"cls", NULL}]

\* all_rows, as a run fetches it from its sources: ids are not repeated
AllRows ==
    {rows \in UNION {[1..n -> SourceItems] : n \in 0..MaxItems} :
        \A p, q \in DOMAIN rows : rows[p].id = rows[q].id => p = q}

\* a reply that is the JSON text of a dict with a score
ScoreJson == "{score: 8}"

\* what the model may answer to the scoring prompt
BatchContents == {None, "ok", ScoreJson}

\* the outcomes of a requests.post of the batch: a 200 with one of the replies,
\* a 429 (retried, then the next model) or another status (the call gives up)
BatchOutcomes ==
    {o \in OutcomesOf(BatchContents) : o.kind \in {"Success", "RateLimited", "Rejected"}}

\* analyze_news_item: the messages for a title
ItemMessages(title) == << <<"role", "user">>, <<"content", title>> >>

\* analyze_news_item: the dict of a reply that parses and has a score,
\* otherwise nothing (ok is FALSE for the None of the source)
Analysis(response) ==
    IF Truthy(response) /\ response = ScoreJson THEN [ok |-> TRUE, score |-> 8]
    ELSE [ok |-> FALSE, score |-> 0]

\* a = b in SQL: never true when a side is NULL
SqlEq(a, b) == a # NULL /\ b # NULL /\ a = b

\* SELECT 1 FROM processed_news WHERE original_id=? AND platform_name=?
AlreadyProcessed(table, row) ==
    \E r \in table : r.original_id = row.id /\ SqlEq(r.platform_name, row.platform_name)

\* INSERT INTO processed_news: primary key (original_id, platform_name), whose
\* NULLs are distinct from one another; rowid numbers the rows
InsertProcessed(table, row, score) ==
    table \cup {[rowid |-> Cardinality(table) + 1, original_id |-> row.id,
                 platform_name |-> row.platform_name, score |-> score]}

BatchEvent(ev, k, ok, secs) == [ev |-> ev, k |-> k, ok |-> ok, secs |-> secs]

\* a loop body that leaves the loop when an item has no analysis
BatchRecordHalt(b, a) ==
    LET paced == [b EXCEPT !.log = @ \o <<BatchEvent("result", b.i, a.ok, 0),
                                           BatchEvent("sleep", b.i, a.ok, ItemDelay)>>]
    IN  IF ~a.ok THEN [paced EXCEPT !.pc = "loop", !.i = Len(b.rows) + 1]
        ELSE [paced EXCEPT !.pc = "loop", !.i = @ + 1,
                           !.processed_news = InsertProcessed(@, b.rows[b.i], a.score),
                           !.log = Append(@, BatchEvent("insert", b.i, TRUE, 0))]

\* a loop body that sleeps after the test of the analysis
BatchRecordSleepLate(b, a) ==
    LET seen == [b EXCEPT !.log = Append(@, BatchEvent("result", b.i, a.ok, 0))]
    IN  IF ~a.ok THEN [seen EXCEPT !.pc = "loop", !.i = @ + 1]
        ELSE [seen EXCEPT !.pc = "loop", !.i = @ + 1,
                          !.processed_news = InsertProcessed(@, b.rows[b.i], a.score),
                          !.log = @ \o <<BatchEvent("sleep", b.i, a.ok, ItemDelay),
                                         BatchEvent("insert", b.i, TRUE, 0)>>]

\* the rest of the loop body once analyze_news_item has returned a:
\* time.sleep(10); if not analysis: continue; INSERT
BatchRecord(b, a) ==
    LET paced == [b EXCEPT !.log = @ \o <<BatchEvent("result", b.i, a.ok, 0),
                                           BatchEvent("sleep", b.i, a.ok, ItemDelay)>>]
    IN  IF ~a.ok THEN [paced EXCEPT !.pc = "loop", !.i = @ + 1]
        ELSE [paced EXCEPT !.pc = "loop", !.i = @ + 1,
                           !.processed_news = InsertProcessed(@, b.rows[b.i], a.score),
                           !.log = Append(@, BatchEvent("insert", b.i, TRUE, 0))]

\* process_latest_news begins: init_investment_db and the fetch of all_rows,
\* the same rows on every run while the sources do not change
BatchStart ==
    /\ batch.pc = "off" /\ batch.runs < MaxRuns
    /\ call.impl = "step39" /\ Quiet
    /\ batch' = [batch EXCEPT !.pc = "loop", !.i = 1, !.log = <<>>,
                              !.table0 = batch.processed_news, !.runs = @ + 1]
    /\ UNCHANGED <<today, cache, ollama_client, github_client, call>>

\* if cursor_inv.fetchone(): continue
BatchSkip ==
    /\ batch.pc = "loop" /\ batch.i <= Len(batch.rows)
    /\ AlreadyProcessed(batch.processed_news, batch.rows[batch.i])
    /\ batch' = [batch EXCEPT !.i = @ + 1, !.log = Append(@, BatchEvent("skip", batch.i, FALSE, 0))]
    /\ UNCHANGED <<today, cache, ollama_client, github_client, call>>

\* analyze_news_item(row['title']) enters call_openrouter(DEFAULT_MODEL, messages)
BatchAnalyze(key) ==
    /\ batch.pc = "loop" /\ batch.i <= Len(batch.rows)
    /\ ~AlreadyProcessed(batch.processed_news, batch.rows[batch.i])
    /\ S39Start(key, DEFAULT_MODEL, ItemMessages(batch.rows[batch.i].title))
    /\ batch' = [batch EXCEPT !.pc = "analyzing",
                              !.log = Append(@, BatchEvent("invoke", batch.i, FALSE, 0))]

\* call_openrouter has returned: the parse of the reply and the rest of the body
BatchTake ==
    /\ batch.pc = "analyzing" /\ call.pc = "done"
    /\ batch' = BatchRecord(batch, Analysis(call.ret))
    /\ call' = Idle("step39", "idle", cache, cache, today)
    /\ UNCHANGED <<today, cache, ollama_client, github_client>>

\* the loop is over: conn_inv.commit()
BatchEnd ==
    /\ batch.pc = "loop" /\ batch.i > Len(batch.rows)
    /\ batch' = [batch EXCEPT !.pc = "off"]
    /\ UNCHANGED <<today, cache, ollama_client, github_client, call>>

\* the step39 program before its first run, over sources that hold rows
InitBatch ==
    /\ today = 0
    /\ cache = {}
    /\ call = Idle("step39", "booted", {}, {}, 0)
    /\ ollama_client = FALSE
    /\ github_client = FALSE
    /\ \E rows \in AllRows : batch = [BatchOff({}, 0) EXCEPT !.rows = rows]

NextBatch ==
    \/ BatchStart
    \/ BatchSkip
    \/ \E key \in BOOLEAN : BatchAnalyze(key)
    \/ \E o \in BatchOutcomes : S39Post(o) /\ UNCHANGED batch
    \/ BatchTake
    \/ BatchEnd

SpecBatch == InitBatch /\ [][NextBatch]_vars

\* -------------------------------------------------------- progress
\* both callers are sequential code: once inside call_openrouter the process
\* goes on with its next statement, and requests.post comes back within its
\* timeout (120 s, 60 s) with some outcome
NextLive ==
    \/ \E key \in BOOLEAN, arg \in ReadFaultArgs, m \in CoreMessages : CoreStart(key, arg, m) /\ UNCHANGED batch
    \/ CoreTop(FALSE) /\ UNCHANGED batch
    \/ \E o \in Outcomes : CorePost(o, FALSE) /\ UNCHANGED batch
    \/ \E key \in BOOLEAN, model \in ModelIds, m \in Messages : S39Start(key, model, m) /\ UNCHANGED batch
    \/ \E o \in Outcomes : S39Post(o) /\ UNCHANGED batch
    \/ Pause /\ UNCHANGED batch

SpecLive ==
    /\ Init /\ [][NextLive]_vars
    /\ WF_vars(CoreTop(FALSE) /\ UNCHANGED batch)
    /\ WF_vars(\E o \in Outcomes : CorePost(o, FALSE) /\ UNCHANGED batch)
    /\ WF_vars(\E o \in Outcomes : S39Post(o) /\ UNCHANGED batch)

\* ------------------------------------------- two processes, one table
\* another process instance of llm_core.py runs call_openrouter with the same
\* payload and reaches _set_cache(model, prompt_str, response) while this
\* process is inside its own invoke.  Each process touches the table through
\* one SELECT or one committed REPLACE at a time, on a connection of its own
\* (_get_connection: WAL, 30 s lock timeout), so the statements of the two
\* processes interleave as whole steps.
PeerWrites(v) == {k \in 1..Len(v.trace) : v.trace[k].ev = "peer_put"}

PeerPut(model, response) ==
    /\ call.impl = "core" /\ call.pc \in {"core_top", "core_post", "done"} /\ call.key
    /\ Cardinality(PeerWrites(call)) < MaxPeerWrites
    /\ cache' = _set_cache(cache, model, call.prompt, response, today, FALSE)
    /\ Cardinality(cache') <= MaxCache
    /\ call' = Log(call, Event("peer_put", model, "", response, 0))
    /\ UNCHANGED <<today, ollama_client, github_client>>

InitPeers == Init /\ call.impl = "core"

NextPeers ==
    \/ \E m \in CoreMessages : CoreStart(TRUE, [str |-> TRUE, val |-> FreeModel], m) /\ UNCHANGED batch
    \/ CoreTop(FALSE) /\ UNCHANGED batch
    \/ \E o \in OutcomesOf(ReadFaultContents) : CorePost(o, FALSE) /\ UNCHANGED batch
    \/ \E model \in {FreeModel, Gemini}, r \in ReadFaultContents : PeerPut(model, r) /\ UNCHANGED batch
    \/ Pause /\ UNCHANGED batch

SpecPeers == InitPeers /\ [][NextPeers]_vars

\* ------------------------------------------------------------- claims
\* the positions of the log of v that are network calls
CallAt(v) == {k \in 1..Len(v.trace) : v.trace[k].ev = "call"}

\* the network calls of v that went to model m
CallsTo(v, m) == {k \in CallAt(v) : v.trace[k].model = m}

\* the positions of the log of v that are about model m
About(v, m) == {k \in 1..Len(v.trace) : v.trace[k].model = m}

\* the first invoke of a pair of equal same-day invokes has finished and the
\* second has finished too
SecondDone == call.pc = "done" /\ call.again

\* C1 as stated: once a first invoke returned a response, a second invoke
\* with the same provider and payload on the same day returns the identical
\* response and issues no network attempt.
C1_AsStated ==
    (SecondDone /\ call.key /\ (call.impl = "step39" \/ Len(call.models) = 1) /\ call.first # None)
        => (call.ret = call.first /\ CallAt(call) = {})

\* C1 amended: for call_openrouter of llm_core.py with the API key present,
\* once a first invoke of one provider returned a non-empty response, a second
\* same-day invoke with the same provider and payload returns the identical
\* response and issues no network attempt.
C1_Idempotence ==
    (SecondDone /\ call.impl = "core" /\ call.key /\ Len(call.models) = 1 /\ Truthy(call.first))
        => (call.ret = call.first /\ CallAt(call) = {})

C1_Witness ==
    /\ SecondDone /\ call.impl = "core" /\ call.key /\ Len(call.models) = 1
    /\ Truthy(call.first) /\ call.ret = call.first /\ CallAt(call) = {}

\* the first event of the log of v that is a cache hit or a network call
FirstAnswer(v) ==
    LET ks == {k \in 1..Len(v.trace) : v.trace[k].ev \in {"hit", "call"}}
    IN  IF ks = {} THEN 0 ELSE CHOOSE k \in ks : \A j \in ks : k <= j

\* the eligible providers of the list of v, as positions
Eligible(v) == {j \in 1..Len(v.models) : Contains(v.models[j], ":free")}

\* C2: with FORCE_FREE_MODE on, call_openrouter of llm_core.py never sends a
\* network call for an id without ":free"; what it returns is what the first
\* eligible provider of the list yields: its cached response, the content of
\* its 200 reply, and None when it fails and no other eligible provider follows.
C2_Eligibility ==
    call.impl = "core" =>
        /\ \A k \in CallAt(call) : Contains(call.trace[k].model, ":free")
        /\ (call.pc = "done" /\ call.key /\ Eligible(call) # {}) =>
              LET j == CHOOSE j \in Eligible(call) : \A l \in Eligible(call) : j <= l
                  k == FirstAnswer(call)
              IN  /\ k # 0
                  /\ call.trace[k].model = call.models[j]
                  /\ call.trace[k].ev = "hit" => call.ret = call.trace[k].content
                  /\ (call.trace[k].ev = "call" /\ call.trace[k].out = "Success")
                        => call.ret = call.trace[k].content
                  /\ (call.trace[k].ev = "call" /\ call.trace[k].out # "Success"
                        /\ Cardinality(Eligible(call)) = 1) => call.ret = None

C2_Witness ==
    /\ call.impl = "core" /\ call.pc = "done" /\ call.models = <<PaidModel, FreeModel>>
    /\ call.ret = "ok" /\ CallsTo(call, FreeModel) # {} /\ CallsTo(call, PaidModel) = {}

\* provider m got nothing but 429 in v, and a later provider was called
AlwaysRateLimited(v, m) ==
    /\ CallsTo(v, m) # {}
    /\ \A k \in CallsTo(v, m) : v.trace[k].out = "RateLimited"
    /\ \E k \in CallAt(v) : v.trace[k].model # m /\ \A j \in CallsTo(v, m) : j < k

\* C3 as stated: a provider that is rate-limited on every call receives
\* exactly maxRetries + 1 calls (3 for max_retries = 2) before the next
\* provider is tried.
C3_AsStated ==
    (call.impl = "step39" /\ call.pc = "done") =>
        \A j \in 1..Len(call.models) :
            AlwaysRateLimited(call, call.models[j])
                => Cardinality(CallsTo(call, call.models[j])) = max_retries + 1

\* C4 as stated: a provider whose call returns Rejected is called exactly
\* once in that invoke, and no sleep follows that outcome.
C4_AsStated ==
    \A k \in CallAt(call) :
        call.trace[k].out = "Rejected" =>
            /\ Cardinality(CallsTo(call, call.trace[k].model)) = 1
            /\ k < Len(call.trace) => call.trace[k + 1].ev # "sleep"

\* C4 amended: a provider whose call returns Rejected is not called again in
\* that invoke; call_openrouter of step39_news_filter.py then returns None at
\* once, without a sleep, and call_openrouter of llm_core.py sleeps 1 second
\* and goes on to the next provider.
C4_RejectedIsFinal ==
    \A k \in CallAt(call) :
        call.trace[k].out = "Rejected" =>
            /\ \A j \in CallsTo(call, call.trace[k].model) : j <= k
            /\ call.impl = "step39" =>
                  (k = Len(call.trace) /\ call.pc = "done" /\ call.ret = None)
            /\ call.impl = "core" =>
                  /\ k < Len(call.trace)
                  /\ call.trace[k + 1].ev = "sleep" /\ call.trace[k + 1].secs = 1
                  /\ Cardinality(CallsTo(call, call.trace[k].model)) = 1

C4_Witness ==
    /\ call.impl = "core" /\ call.pc = "done" /\ Len(call.models) = 2
    /\ \E k \in CallsTo(call, call.models[1]) :
          /\ call.trace[k].out = "Rejected"
          /\ call.trace[k + 1].ev = "sleep" /\ call.trace[k + 1].secs = 1
    /\ \E k \in CallsTo(call, call.models[2]) : call.trace[k].out = "Success"

\* every provider of the list of v was skipped or asked
AllTried(v) == \A j \in 1..Len(v.models) : About(v, v.models[j]) # {}

\* C5 as stated: after a Rejected outcome from a provider that is not the
\* last, invoke goes on to the next provider, and it returns None only when
\* every provider of the list was skipped, rejected or ran out of retries.
C5_AsStated ==
    (call.pc = "done" /\ call.key /\ call.ret = None) => AllTried(call)

\* a 200 reply of v carried a null content
NullContent(v) == \E k \in CallAt(v) : v.trace[k].out = "Success" /\ v.trace[k].content = None

\* C5 amended: call_openrouter of llm_core.py goes on to the next provider
\* after a non-200 status and returns None, with the API key present, only
\* when every provider of the list was skipped or has failed or a 200 reply
\* carried a null content; call_openrouter of step39_news_filter.py returns
\* None at once on a Rejected outcome (or a null content), also while
\* untried providers remain, and otherwise only after max_retries calls to
\* every provider.
C5_NoResult ==
    (call.pc = "done" /\ call.key /\ call.ret = None) =>
        \/ NullContent(call)
        \/ call.impl = "core" /\ AllTried(call)
        \/ /\ call.impl = "step39"
           /\ call.trace # <<>>
           /\ \/ call.trace[Len(call.trace)].out = "Rejected"
              \/ \A j \in 1..Len(call.models) :
                    Cardinality(CallsTo(call, call.models[j])) = max_retries

C5_Witness ==
    /\ call.impl = "core" /\ call.pc = "done" /\ call.key /\ call.ret = None
    /\ Len(call.models) = 2 /\ AllTried(call) /\ ~NullContent(call)
    /\ \E k \in CallsTo(call, call.models[1]) : call.trace[k].out = "Rejected"
    /\ CallsTo(call, call.models[2]) # {}

\* no provider of v answered: no cache hit and no 200 reply
AllFailed(v) ==
    \A k \in 1..Len(v.trace) :
        v.trace[k].ev # "hit" /\ ~(v.trace[k].ev = "call" /\ v.trace[k].out = "Success")

\* C6: when every provider fails, invoke returns None as a value, raises
\* nothing and writes nothing: the cache after the call is the cache before it.
C6_Exhaustion ==
    (call.pc = "done" /\ AllFailed(call)) =>
        /\ call.ret = None
        /\ ~call.raised
        /\ \A k \in 1..Len(call.trace) : call.trace[k].ev # "put"
        /\ call.cache1 = call.cache0 /\ cache = call.cache0

C6_Witness ==
    /\ call.pc = "done" /\ call.impl = "core" /\ call.key /\ AllFailed(call)
    /\ call.models = <<FreeModel, Gemini>> /\ call.cache0 # {}
    /\ \E k \in CallsTo(call, FreeModel) : call.trace[k].out = "RateLimited"
    /\ \E k \in CallsTo(call, Gemini) : call.trace[k].out = "Transient"
    /\ call.ret = None

\* C7: the key of a (provider, payload) pair on day d finds only a row that
\* was written on day d, so a cache hit of invoke returns a row of its own
\* day; the same pair on two days has two rows.
C7_DayScoping ==
    /\ \A e \in cache, m \in ModelIds, p \in Prompts, d \in 0..MaxDay :
          e.prompt_hash = CacheKey(m, p, d) => (e.created_date = d /\ e.model_name = m)
    /\ \A k \in 1..Len(call.trace) :
          call.trace[k].ev = "hit" =>
              \E e \in cache : /\ e.prompt_hash = CacheKey(call.trace[k].model, call.prompt, call.day)
                               /\ e.created_date = call.day
                               /\ e.response = call.trace[k].content

C7_Witness ==
    /\ call.pc = "done" /\ call.impl = "core" /\ call.day = 1 /\ call.models = <<FreeModel>>
    /\ \E k \in About(call, FreeModel) : call.trace[k].ev = "miss"
    /\ \E e \in call.cache0 : e.prompt_hash = CacheKey(FreeModel, call.prompt, 0)
    /\ \E e0, e1 \in cache : /\ e0.prompt_hash = CacheKey(FreeModel, call.prompt, 0)
                             /\ e1.prompt_hash = CacheKey(FreeModel, call.prompt, 1)
                             /\ e0 # e1

\* C8: right after the sweep of initialize_services on day D no row older
\* than D - 7 remains and every row of day D - 7 or later is still there,
\* unchanged; nothing else is in the table.
C8_Retention ==
    call.pc = "booted" =>
        /\ \A e \in call.cache0 : e.created_date < call.day - days_to_keep => e \notin cache
        /\ \A e \in call.cache0 : e.created_date >= call.day - days_to_keep => e \in cache
        /\ cache \subseteq call.cache0

C8_Witness ==
    /\ call.pc = "booted"
    /\ \E e \in call.cache0 : e.created_date = call.day - 8 /\ e \notin cache
    /\ \E e \in call.cache0 : e.created_date = call.day - 7 /\ e \in cache

\* C9 as stated: when the cache holds a same-day entry for the provider and
\* the payload, invoke returns it and makes no network call, also for a
\* provider without ":free".
C9_AsStated ==
    (call.impl = "core" /\ call.pc = "done" /\ call.key /\ Len(call.models) >= 1
        /\ _get_cache(call.cache0, call.models[1], call.prompt, call.day, FALSE) # None)
        => /\ call.ret = _get_cache(call.cache0, call.models[1], call.prompt, call.day, FALSE)
           /\ CallAt(call) = {}

\* C9 amended: the firewall is evaluated before the cache lookup: a provider
\* without ":free" is skipped without a lookup and without a network call,
\* also when the cache holds a same-day entry for it, which is then not
\* returned; for a provider with ":free" the same-day entry is returned
\* without a network call.
C9_GuardFirst ==
    call.impl = "core" =>
        /\ \A k \in 1..Len(call.trace) :
              (call.trace[k].ev = "skip") <=> ~Contains(call.trace[k].model, ":free")
        /\ (call.pc = "done" /\ call.key /\ Len(call.models) >= 1
              /\ _get_cache(call.cache0, call.models[1], call.prompt, call.day, FALSE) # None) =>
                 IF Contains(call.models[1], ":free")
                 THEN /\ call.ret = _get_cache(call.cache0, call.models[1], call.prompt, call.day, FALSE)
                      /\ CallAt(call) = {}
                 ELSE /\ CallsTo(call, call.models[1]) = {}
                      /\ call.trace[1].ev = "skip"
                      /\ Len(call.models) = 1 => call.ret = None

C9_Witness ==
    /\ call.impl = "core" /\ call.pc = "done" /\ call.key /\ call.models = <<PaidModel>>
    /\ _get_cache(call.cache0, PaidModel, call.prompt, call.day, FALSE) = "ok"
    /\ call.ret = None /\ Len(call.trace) = 1 /\ call.trace[1].ev = "skip"

\* C10: in one invoke a provider gets at most max_retries + 1 network calls
\* (at most one in llm_core.py, which does not retry), and the invoke makes at
\* most (number of providers) * (max_retries + 1) network calls, all of them
\* to providers of its list.
C10_AttemptBound ==
    call.impl \in {"core", "step39"} =>
        /\ \A j \in 1..Len(call.models) :
              /\ Cardinality(CallsTo(call, call.models[j])) <= max_retries + 1
              /\ call.impl = "core" => Cardinality(CallsTo(call, call.models[j])) <= 1
        /\ Cardinality(CallAt(call)) <= Len(call.models) * (max_retries + 1)
        /\ \A k \in CallAt(call) : InSeq(call.trace[k].model, call.models)

C10_Witness ==
    /\ call.impl = "step39" /\ call.pc = "done" /\ Len(call.models) >= 2
    /\ Cardinality(CallsTo(call, call.models[1])) = max_retries
    /\ \A k \in CallsTo(call, call.models[1]) : call.trace[k].out \in {"RateLimited", "Transient"}
    /\ CallsTo(call, call.models[2]) # {}

\* the process is inside call_openrouter or has just returned from it
InCall == call.pc \in {"core_top", "core_post", "s39_post", "done"}

\* the place of provider m in the list of v
Rank(v, m) == SeqIndex(v.models, m, 1)

\* C11: providers are dispatched strictly in list order: what invoke does
\* (skip, lookup, network call, wait) never goes back to an earlier provider
\* of the list, so all attempts on a provider come before the first attempt
\* on the next one and a provider that was left is never called again.
C11_Ordering ==
    InCall =>
        /\ \A k \in 1..Len(call.trace) : Rank(call, call.trace[k].model) >= 1
        /\ \A k, l \in 1..Len(call.trace) :
              k < l => Rank(call, call.trace[k].model) <= Rank(call, call.trace[l].model)
        /\ \A k \in 1..Len(call.trace) : Rank(call, call.trace[k].model) <= call.i

C11_Witness ==
    /\ call.impl = "step39" /\ call.pc = "done" /\ Len(call.models) = 2
    /\ Len(call.trace) >= 5
    /\ call.trace[1].ev = "call" /\ call.trace[1].model = call.models[1]
    /\ call.trace[1].out = "Transient"
    /\ call.trace[3].ev = "call" /\ call.trace[3].model = call.models[1]
    /\ call.trace[3].out = "RateLimited"
    /\ call.trace[Len(call.trace)].ev = "call"
    /\ call.trace[Len(call.trace)].model = call.models[2]
    /\ call.trace[Len(call.trace)].out = "Success"

\* the cache writes of v, as positions of its log
PutAt(v) == {k \in 1..Len(v.trace) : v.trace[k].ev = "put"}

\* C12: one invoke writes the cache at most once; the write comes right
\* after the first 200 reply, which ends the invoke; the row it leaves holds
\* the response the invoke returns under the key of the provider that
\* answered, and no other row of the table changes.
C12_SingleWrite ==
    InCall =>
        /\ Cardinality(PutAt(call)) <= 1
        /\ \A k \in PutAt(call) :
              /\ k = Len(call.trace) /\ k > 1 /\ call.pc = "done"
              /\ call.trace[k - 1].ev = "call" /\ call.trace[k - 1].out = "Success"
              /\ call.trace[k - 1].model = call.trace[k].model
              /\ CallAt(call) = CallsTo(call, call.trace[k].model)
                    \cup {j \in CallAt(call) : call.trace[j].out # "Success"}
              /\ call.ret = call.trace[k].content
        /\ PutAt(call) = {} => cache = call.cache0
        /\ Cardinality(cache \ call.cache0) <= 1
        /\ \A e \in cache \ call.cache0 :
              \E k \in PutAt(call) :
                  /\ e.prompt_hash = CacheKey(call.trace[k].model, call.prompt, call.day)
                  /\ e.model_name = call.trace[k].model
                  /\ e.response = call.ret
                  /\ \A r \in call.cache0 \ cache : r.prompt_hash = e.prompt_hash
        /\ cache \ call.cache0 = {} => cache = call.cache0

C12_Witness ==
    /\ call.impl = "core" /\ call.pc = "done" /\ call.models = <<FreeModel, Gemini>>
    /\ \E k \in CallsTo(call, FreeModel) : call.trace[k].out = "Rejected"
    /\ \E k \in CallsTo(call, Gemini) : call.trace[k].out = "Success"
    /\ call.ret = "ok"
    /\ cache \ call.cache0 = {[prompt_hash |-> CacheKey(Gemini, call.prompt, call.day),
                               model_name |-> Gemini, response |-> "ok",
                               created_date |-> call.day]}

\* C13: without the credential of its family a caller issues no request and
\* returns None at once: call_openrouter without OPENROUTER_API_KEY, whatever
\* its providers, logs nothing (no lookup, no network call, no sleep), and
\* call_ollama_cloud and call_github_models without their client send
\* nothing; the cache is left as it was.
C13_MissingCredential ==
    /\ (call.pc = "done" /\ ~call.key) =>
          (call.ret = None /\ call.trace = <<>> /\ ~call.raised /\ cache = call.cache0)
    /\ (call.op = "call_ollama_cloud" /\ ~ollama_client) =>
          (call.ret = None /\ call.chats = 0 /\ cache = call.cache0)
    /\ (call.op = "call_github_models" /\ ~github_client) =>
          (call.ret = None /\ call.chats = 0 /\ cache = call.cache0)

C13_Witness ==
    /\ call.impl = "core" /\ call.pc = "done" /\ ~call.key
    /\ call.models = <<FreeModel, Gemini>> /\ call.cache0 # {}
    /\ call.ret = None /\ call.trace = <<>>

\* call_github_models without its client has returned
C13_WitnessGithub ==
    /\ call.op = "call_github_models" /\ ~github_client /\ ollama_client
    /\ call.ret = None /\ call.chats = 0 /\ call.cache0 # {}

\* the attempt index of the network call at position k of the log of v: the
\* number of earlier calls of v to the same provider
AttemptIndex(v, k) == Cardinality({j \in CallsTo(v, v.trace[k].model) : j < k})

\* the 429 replies of v after which the same provider is attempted again
Retried429(v) ==
    {k \in CallAt(v) : /\ v.trace[k].out = "RateLimited"
                       /\ \E l \in CallsTo(v, v.trace[k].model) : l > k}

TransientAt(v) == {k \in CallAt(v) : v.trace[k].out = "Transient"}

\* C15 as stated: whatever the mix of 429 replies and exceptions, a provider
\* gets no more attempts than 429 replies alone would give it, and every
\* exception is followed by a wait of one fixed length.
C15_AsStated ==
    /\ \A j \in 1..Len(call.models) :
          Cardinality(CallsTo(call, call.models[j])) <= (IF call.impl = "step39" THEN max_retries ELSE 1)
    /\ \A k \in TransientAt(call) :
          /\ k < Len(call.trace)
          /\ call.trace[k + 1].ev = "sleep" /\ call.trace[k + 1].secs > 0
    /\ \A k, l \in TransientAt(call) : call.trace[k + 1].secs = call.trace[l + 1].secs

\* C15 amended: in call_openrouter of step39_news_filter.py exceptions and
\* 429 replies use up the same max_retries attempts of a provider, and every
\* exception, also that of the last attempt, is followed by a sleep of 5
\* seconds; in call_openrouter of llm_core.py a provider gets one attempt and
\* an exception is followed by no wait.
C15_SharedBudget ==
    /\ call.impl = "step39" =>
          /\ \A j \in 1..Len(call.models) :
                Cardinality(CallsTo(call, call.models[j])) <= max_retries
          /\ \A k \in TransientAt(call) :
                /\ k < Len(call.trace)
                /\ call.trace[k + 1].ev = "sleep" /\ call.trace[k + 1].secs = 5
                /\ call.trace[k + 1].model = call.trace[k].model
          /\ \A k \in CallAt(call) :
                AttemptIndex(call, k) = Cardinality({j \in CallsTo(call, call.trace[k].model) :
                                                        j < k /\ call.trace[j].out \in {"RateLimited", "Transient"}})
    /\ call.impl = "core" =>
          /\ \A j \in 1..Len(call.models) : Cardinality(CallsTo(call, call.models[j])) <= 1
          /\ \A k \in TransientAt(call) :
                IF k < Len(call.trace)
                THEN call.trace[k + 1].ev # "sleep" /\ call.trace[k + 1].model # call.trace[k].model
                ELSE call.pc \in {"core_top", "done"}

C15_Witness ==
    /\ call.impl = "step39" /\ call.pc = "done" /\ call.ret = None
    /\ call.models = <<PaidModel, Gemini>> /\ Len(call.trace) = 7
    /\ call.trace[1].ev = "call" /\ call.trace[1].out = "Transient"
    /\ call.trace[2].ev = "sleep" /\ call.trace[2].secs = 5
    /\ call.trace[3].ev = "call" /\ call.trace[3].out = "RateLimited"
    /\ call.trace[3].model = PaidModel
    /\ call.trace[4].ev = "call" /\ call.trace[4].out = "RateLimited"
    /\ call.trace[4].model = Gemini
    /\ call.trace[6].ev = "call" /\ call.trace[6].out = "Transient"
    /\ call.trace[7].ev = "sleep" /\ call.trace[7].secs = 5

\* the 200 replies of v
SuccessAt(v) == {k \in CallAt(v) : v.trace[k].out = "Success"}

\* C16: a 200 reply ends the invoke: the invoke returns the content of that
\* reply, whatever it is, and sends no further request, neither to the same
\* provider nor to a later one; all that may follow is the cache write of
\* llm_core.py.
C16_SuccessTerminal ==
    /\ Cardinality(SuccessAt(call)) <= 1
    /\ \A k \in SuccessAt(call) :
          /\ call.pc = "done" /\ ~call.raised
          /\ call.ret = call.trace[k].content
          /\ \A j \in CallAt(call) : j <= k
          /\ \A j \in (k + 1)..Len(call.trace) :
                /\ call.impl = "core" /\ j = k + 1
                /\ call.trace[j].ev = "put" /\ call.trace[j].model = call.trace[k].model

C16_Witness ==
    /\ call.impl = "core" /\ call.pc = "done" /\ call.models = <<FreeModel, Gemini>>
    /\ SuccessAt(call) = CallsTo(call, FreeModel) /\ SuccessAt(call) # {}
    /\ CallsTo(call, Gemini) = {} /\ About(call, Gemini) = {}
    /\ call.ret = "ok" /\ call.i = 1

\* the cache lookups of v for provider m, as positions of its log
LookupAt(v, m) == {k \in About(v, m) : v.trace[k].ev \in {"hit", "miss"}}

\* C17 as stated: for every provider that invoke sends a request to, the
\* cache lookup for that provider and payload happens exactly once in that
\* call and before the first request to it.
C17_AsStated ==
    InCall =>
        \A k \in CallAt(call) :
            /\ Cardinality(LookupAt(call, call.trace[k].model)) = 1
            /\ \A j \in LookupAt(call, call.trace[k].model) : j < k

\* C17 amended: in call_openrouter of llm_core.py, with a store whose reads
\* work, every provider that gets a request was looked up exactly once in
\* that call, right before its request, and the lookup was a miss: no request
\* is sent while the cache holds a same-day entry for the provider and the
\* payload.  call_openrouter of step39_news_filter.py looks nothing up.
C17_LookupOnce ==
    InCall =>
        /\ call.impl = "core" =>
              /\ \A k \in CallAt(call) :
                    /\ LookupAt(call, call.trace[k].model) = {k - 1}
                    /\ call.trace[k - 1].ev = "miss"
                    /\ _get_cache(call.cache0, call.trace[k].model, call.prompt, call.day, FALSE) = None
              /\ call.pc = "core_post" =>
                    /\ _get_cache(cache, call.models[call.i], call.prompt, today, FALSE) = None
                    /\ LookupAt(call, call.models[call.i]) = {Len(call.trace)}
        /\ call.impl = "step39" =>
              \A k \in 1..Len(call.trace) : call.trace[k].ev \in {"call", "sleep"}

C17_Witness ==
    /\ call.impl = "core" /\ call.pc = "done" /\ call.models = <<Gemini>>
    /\ \E e \in call.cache0 : e.prompt_hash = CacheKey(PaidModel, call.prompt, call.day)
    /\ Len(call.trace) >= 2
    /\ call.trace[1].ev = "miss" /\ call.trace[2].ev = "call"
    /\ LookupAt(call, Gemini) = {1}

\* C18: _set_cache does nothing for a null or an empty response, so no row
\* of the cache ever holds an empty response; for any other response it
\* leaves one row under the computed key with that response.  Seen at the
\* return of call_openrouter of llm_core.py after a 200 reply with content r.
C18_NoEmptyEntry ==
    /\ \A e \in cache : Truthy(e.response)
    /\ \A c \in {call.cache0}, m \in ModelIds, p \in Prompts, r \in Contents :
          /\ ~Truthy(r) => _set_cache(c, m, p, r, today, FALSE) = c
          /\ Truthy(r) =>
                /\ _get_cache(_set_cache(c, m, p, r, today, FALSE), m, p, today, FALSE) = r
                /\ \A e \in c : e.prompt_hash # CacheKey(m, p, today)
                                    => e \in _set_cache(c, m, p, r, today, FALSE)
    /\ (call.impl = "core" /\ call.pc = "done") =>
          \A k \in PutAt(call) :
              IF Truthy(call.trace[k].content)
              THEN \E e \in cache :
                      /\ e.prompt_hash = CacheKey(call.trace[k].model, call.prompt, call.day)
                      /\ e.response = call.trace[k].content
              ELSE cache = call.cache0

C18_Witness ==
    /\ call.impl = "core" /\ call.pc = "done" /\ call.models = <<FreeModel>>
    /\ call.cache0 # {}
    /\ \E k \in PutAt(call) : call.trace[k].content = ""
    /\ call.ret = "" /\ cache = call.cache0

\* the key of the cache write of v at position k of its log
PutKey(v, k) == CacheKey(v.trace[k].model, v.prompt, v.day)

\* C19: the cache holds at most one row per key; a write under a key that
\* is already there replaces the response of that row and adds no row, the
\* other rows stay as they are, and a read of the key then returns the
\* response written last.
C19_PrimaryKey ==
    /\ \A e1, e2 \in cache : e1.prompt_hash = e2.prompt_hash => e1 = e2
    /\ \A m \in {FreeModel, Gemini}, p \in Prompts, r1, r2 \in ReadFaultContents :
          LET c1 == _set_cache(cache, m, p, r1, today, FALSE)
              c2 == _set_cache(c1, m, p, r2, today, FALSE)
          IN  /\ _get_cache(c2, m, p, today, FALSE) = r2
              /\ Cardinality(c2) = Cardinality(c1)
              /\ {e \in c2 : e.prompt_hash # CacheKey(m, p, today)}
                    = {e \in cache : e.prompt_hash # CacheKey(m, p, today)}
    /\ call.pc = "done" =>
          \A k \in PutAt(call) :
              /\ _get_cache(cache, call.trace[k].model, call.prompt, call.day, FALSE)
                    = call.trace[k].content
              /\ {e \in cache : e.prompt_hash # PutKey(call, k)}
                    = {e \in call.cache0 : e.prompt_hash # PutKey(call, k)}
              /\ (\E e \in call.cache0 : e.prompt_hash = PutKey(call, k))
                    => Cardinality(cache) = Cardinality(call.cache0)

C19_Witness ==
    /\ call.pc = "done" /\ Len(call.trace) >= 3
    /\ \E k \in PutAt(call) :
          /\ call.trace[k].content = "ok2"
          /\ \E e \in call.cache0 : e.prompt_hash = PutKey(call, k) /\ e.response = "ok"
          /\ \E e \in cache : e.prompt_hash = PutKey(call, k) /\ e.response = "ok2"
    /\ Cardinality(cache) = Cardinality(call.cache0)

\* C20: _get_cache raises nothing and returns None when the read fails, and
\* call_openrouter of llm_core.py then goes on as after a miss: the request to
\* that provider is the next thing it does; a hit is always the response of
\* a stored row.
C20_ReadFailureIsMiss ==
    /\ ~call.raised
    /\ \A m \in {FreeModel, Gemini}, p \in Prompts : _get_cache(cache, m, p, today, TRUE) = None
    /\ InCall =>
          \A k \in 1..Len(call.trace) :
              /\ call.trace[k].ev = "miss" =>
                    IF k < Len(call.trace)
                    THEN /\ call.trace[k + 1].ev = "call"
                         /\ call.trace[k + 1].model = call.trace[k].model
                    ELSE call.pc = "core_post" /\ call.models[call.i] = call.trace[k].model
              /\ call.trace[k].ev = "hit" =>
                    /\ k = Len(call.trace) /\ call.pc = "done" /\ call.ret = call.trace[k].content
                    /\ \E e \in call.cache0 :
                          /\ e.prompt_hash = CacheKey(call.trace[k].model, call.prompt, call.day)
                          /\ e.response = call.trace[k].content

\* a read that failed: a miss although the row is there
C20_Witness ==
    /\ call.pc = "done" /\ call.models = <<FreeModel, Gemini>> /\ Len(call.trace) >= 4
    /\ call.trace[1].ev = "miss"
    /\ \E e \in call.cache0 : e.prompt_hash = CacheKey(FreeModel, call.prompt, call.day)
    /\ call.trace[2].ev = "call" /\ call.trace[2].model = FreeModel
    /\ call.trace[2].out = "Transient"
    /\ call.trace[3].ev = "miss" /\ call.trace[4].ev = "call"
    /\ call.trace[4].model = Gemini /\ call.ret = "ok2"

\* the table of the state holds a row under the key of the write at k
Stored(v, k) == \E e \in cache : e.prompt_hash = PutKey(v, k)

\* C21: a failed cache write does not fail the request: when a provider
\* answered 200 with a response and the row did not get into the table,
\* call_openrouter of llm_core.py still returns that response, raises
\* nothing and leaves the table as it was.
C21_WriteFailure ==
    (call.impl = "core" /\ call.pc = "done") =>
        /\ ~call.raised
        /\ \A k \in SuccessAt(call) : call.ret = call.trace[k].content /\ PutAt(call) = {k + 1}
        /\ \A k \in PutAt(call) :
              IF Stored(call, k)
              THEN cache = _set_cache(call.cache0, call.trace[k].model, call.prompt,
                                      call.trace[k].content, call.day, FALSE)
              ELSE cache = call.cache0

C21_Witness ==
    /\ call.impl = "core" /\ call.pc = "done" /\ call.cache0 # {}
    /\ \E k \in PutAt(call) : call.trace[k].content = "ok" /\ ~Stored(call, k)
    /\ call.ret = "ok" /\ cache = call.cache0

\* C22: no caller removes a row or changes one in place: every row that was
\* in the table before an invoke (or a call of call_ollama_cloud) is in it
\* afterwards, unchanged, unless the one write of that call replaced the row
\* of the same key; rows leave the table only in the sweep of
\* initialize_services, and only rows older than the retention window.
C22_Frame ==
    /\ call.pc # "booted" =>
          \A e \in call.cache0 :
              \/ e \in cache
              \/ \E k \in PutAt(call) : PutKey(call, k) = e.prompt_hash /\ Stored(call, k)
    /\ call.pc = "booted" =>
          /\ cache \subseteq call.cache0
          /\ \A e \in call.cache0 \ cache : e.created_date < call.day - days_to_keep

C22_Witness ==
    /\ call.pc = "done" /\ call.day >= 1
    /\ \E k \in PutAt(call) : Stored(call, k)
    /\ call.cache0 # {} /\ call.cache0 \subseteq cache /\ cache # call.cache0
    /\ \E e \in call.cache0 : e.created_date < call.day /\ e.model_name = FreeModel

\* the writes of the log of v, by either process, under the key of provider m
WritesTo(v, m) ==
    {k \in About(v, m) : v.trace[k].ev \in {"put", "peer_put"} /\ Truthy(v.trace[k].content)}

\* the rows of table c under the key of provider m for the payload and day of v
RowsOf(c, v, m) == {e \in c : e.prompt_hash = CacheKey(m, v.prompt, v.day)}

\* the last element of a non-empty set of positions
Last(ks) == CHOOSE k \in ks : \A j \in ks : j <= k

\* C23: two processes write the same (provider, payload, day) key in any
\* interleaving: the table then holds exactly one row for that key and its
\* response is the one written last; the rows of keys nobody wrote are as
\* they were; a lookup of this process in between returns the response
\* written last before it, or the row that was there, or a miss.
C23_LastWriteWins ==
    InCall =>
        /\ \A e1, e2 \in cache : e1.prompt_hash = e2.prompt_hash => e1 = e2
        /\ \A m \in ModelIds :
              IF WritesTo(call, m) = {}
              THEN RowsOf(cache, call, m) = RowsOf(call.cache0, call, m)
              ELSE /\ Cardinality(RowsOf(cache, call, m)) = 1
                   /\ \A e \in RowsOf(cache, call, m) :
                         /\ e.response = call.trace[Last(WritesTo(call, m))].content
                         /\ e.model_name = m /\ e.created_date = call.day
        /\ {e \in cache : \A m \in ModelIds : e \notin RowsOf(cache, call, m)}
              = {e \in call.cache0 : \A m \in ModelIds : e \notin RowsOf(call.cache0, call, m)}
        /\ \A k \in 1..Len(call.trace) :
              LET m == call.trace[k].model
                  before == {j \in WritesTo(call, m) : j < k}
              IN  /\ call.trace[k].ev = "hit" =>
                        IF before = {}
                        THEN \E e \in RowsOf(call.cache0, call, m) : e.response = call.trace[k].content
                        ELSE call.trace[k].content = call.trace[Last(before)].content
                  /\ call.trace[k].ev = "miss" =>
                        (before = {} /\ RowsOf(call.cache0, call, m) = {})

C23_Witness ==
    /\ call.pc = "done" /\ call.models = <<FreeModel>> /\ call.cache0 # {}
    /\ call.cache0 \subseteq cache
    /\ \E k, l \in WritesTo(call, FreeModel) :
          /\ k < l /\ l = Last(WritesTo(call, FreeModel))
          /\ call.trace[k].ev = "peer_put" /\ call.trace[k].content = "ok2"
          /\ call.trace[l].ev = "put" /\ call.trace[l].content = "ok"
    /\ \E e \in cache : e.prompt_hash = CacheKey(FreeModel, call.prompt, call.day) /\ e.response = "ok"

\* l is model m followed by the entries of FREE_MODELS other than m, in
\* roster order, and names nothing twice
IsTrialList(l, m) ==
    LET Other(x) == x # m
    IN  /\ Len(l) >= 1 /\ l[1] = m
        /\ SubSeq(l, 2, Len(l)) = SelectSeq(FREE_MODELS, Other)
        /\ NoDup(l)
        /\ Len(l) = (IF InSeq(m, FREE_MODELS) THEN Len(FREE_MODELS) ELSE Len(FREE_MODELS) + 1)

Running == call.pc \in {"core_top", "core_post", "s39_post"}

\* C25: whatever the providers answer, an invoke that has begun returns: it
\* reaches its return with a response or None and retries no provider for
\* ever.
C25_Termination == Running ~> (call.pc = "done" /\ ~call.raised)

C25_Witness ==
    /\ call.impl = "step39" /\ call.pc = "done" /\ call.ret = None /\ Len(call.models) = 2
    /\ Cardinality(CallAt(call)) = 2 * max_retries
    /\ \A k \in CallAt(call) : call.trace[k].out = "Transient"

\* the rows of table c that are older than the retention window on day d
Expired(c, d) == {e \in c : e.created_date < d - days_to_keep}

\* C26: the sweep runs in initialize_services, at the start of the process,
\* and nowhere else: right after it the table holds no expired row, and no
\* invoke and no cache read or write removes one, so a row that grows older
\* than the window while the process lives stays stored until the next start.
C26_SweepAtStartOnly ==
    /\ call.pc = "booted" => Expired(cache, call.day) = {}
    /\ call.pc # "booted" => Expired(call.cache0, today) \subseteq cache
    /\ call.pc # "booted" => Expired(cache, today) \subseteq call.cache0

C26_Witness ==
    /\ call.pc = "done" /\ today = MaxStoreDay
    /\ \E k \in PutAt(call) : Stored(call, k)
    /\ \E e \in Expired(call.cache0, today) : e.created_date = 0 /\ e \in cache

\* ---- process_latest_news
\* positions of the log of the running batch with an event of kind ev
LogAt(ev) == {p \in DOMAIN batch.log : batch.log[p].ev = ev}

\* the items of the running batch whose analysis gave no result
NoResultItems == {batch.log[p].k : p \in {q \in LogAt("result") : ~batch.log[q].ok}}

\* the items of the batch that the loop has visited
Visited == {batch.log[p].k : p \in LogAt("invoke") \cup LogAt("skip")}

\* C27: when the analysis of an item yields no result, the item is not
\* recorded in processed_news (no INSERT for it, the table is as it was), the
\* loop goes on with the next item, and a batch that has ended has visited
\* every one of its rows: each was analysed unless it was already processed.
C27_SkipOnNoResult ==
    /\ \A p \in LogAt("result") :
          ~batch.log[p].ok =>
             /\ \A q \in LogAt("insert") : batch.log[q].k # batch.log[p].k
             /\ \A q \in DOMAIN batch.log :
                   q > p + 1 => batch.log[q].k > batch.log[p].k
             /\ (p + 1 = Len(batch.log) => batch.pc # "analyzing" /\ batch.i = batch.log[p].k + 1)
    /\ (\A p \in LogAt("result") : ~batch.log[p].ok) =>
          batch.processed_news = batch.table0
    /\ (batch.pc = "off" /\ batch.runs > 0) => Visited = DOMAIN batch.rows

C27_Witness ==
    /\ batch.pc = "off" /\ batch.runs > 0 /\ Len(batch.rows) = 2
    /\ NoResultItems = {1}
    /\ \E p \in LogAt("invoke") : batch.log[p].k = 2
    /\ \E p \in LogAt("insert") : batch.log[p].k = 2

\* C28: between two successive invokes of one batch there is a sleep of the
\* inter-item delay, whatever the earlier invoke returned.
C28_Pacing ==
    \A p, q \in LogAt("invoke") :
        p < q => \E r \in LogAt("sleep") :
                    /\ p < r /\ r < q
                    /\ batch.log[r].secs = ItemDelay
                    /\ batch.log[r].k = batch.log[p].k

C28_Witness ==
    /\ Cardinality(LogAt("invoke")) = 2
    /\ NoResultItems = {1}
    /\ \E r \in LogAt("sleep") : batch.log[r].k = 1 /\ ~batch.log[r].ok

\* C30 as stated: an item under analysis has no row of its (original_id,
\* platform_name) in processed_news, and processed_news never holds two rows
\* of one (original_id, platform_name), NULL platform names included.
C30_AsStated ==
    /\ batch.pc = "analyzing" =>
          ~\E r \in batch.processed_news :
               /\ r.original_id = batch.rows[batch.i].id
               /\ r.platform_name = batch.rows[batch.i].platform_name
    /\ \A r1, r2 \in batch.processed_news :
          (r1.original_id = r2.original_id /\ r1.platform_name = r2.platform_name) => r1 = r2

\* ---- the firewall and the store
\* the rows that the table of the state holds and the table at the start of
\* the call of v did not
NewRows(v) == cache \ v.cache0

\* C29: with the free-only guard on, every cache write of call_openrouter of
\* llm_core.py is under a provider id that carries ":free", and the rows the
\* table gained during the call all carry such an id, whatever ids the
\* caller listed.
C29_FreeOnlyWrites ==
    (FORCE_FREE_MODE /\ call.impl = "core" /\ InCall) =>
        /\ \A k \in PutAt(call) : Contains(call.trace[k].model, ":free")
        /\ \A e \in NewRows(call) : Contains(e.model_name, ":free")

C29_Witness ==
    /\ call.impl = "core" /\ call.pc = "done"
    /\ Contains(call.models, PaidModel)
    /\ PutAt(call) # {} /\ NewRows(call) # {}
    /\ \E e \in call.cache0 : e.model_name = PaidModel

====
